---- MODULE Spec2Model ----
(***************************************************************************)
(* A model of simple-check (src/check.py): the NNTP response parser, the   *)
(* Connect / Login / Check operations, and the main checking loop with its *)
(* found / missing counters and percentage report.                         *)
(*                                                                         *)
(* Strings that travel on the wire are sequences of one-character strings; *)
(* CR and LF stand for "\r" and "\n".  The program is Python 2 code (str   *)
(* sockets, float counters), so recv() yields a str and "/" on the float   *)
(* counters is true division.                                              *)
(***************************************************************************)
EXTENDS Integers, Sequences, FiniteSets, TLC

CR == "CR"
LF == "LF"
SP == " "

DigitChars == {"0", "1", "2", "3", "4", "5", "6", "7", "8", "9"}

(* ---- bounds ---------------------------------------------------------- *)
MaxLen == 5          \* longest input given to ParseResponse in SpecParse
MaxCount == 10       \* largest found / missing value in SpecPct
MaxNzb == 2          \* NZB input files in a run
MaxElems == 2        \* elements under an NZB root
MaxSegs == 2         \* segments under an element

RecvSize == 1024     \* s.recv(1024)

Min(a, b) == IF a < b THEN a ELSE b

(* ---- ParseResponse --------------------------------------------------- *)

\* the value of a tuple's absent member (match.group(2) is None)
NoText == <<"None">>

\* ParseResponse's "return None"
None == [matched |-> FALSE, code |-> <<>>, text |-> NoText]

\* the greedy \d+ : how many leading characters of data are digits
LeadingDigits(data) ==
    CHOOSE k \in 0..Len(data) :
        /\ \A i \in 1..k : data[i] \in DigitChars
        /\ (k = Len(data) \/ data[k + 1] \notin DigitChars)

\* position of the first LF of s, 0 when there is none
FirstLF(s) ==
    IF \E i \in 1..Len(s) : s[i] = LF
    THEN CHOOSE i \in 1..Len(s) : s[i] = LF /\ \A j \in 1..(i - 1) : s[j] # LF
    ELSE 0

\* re.match(r'(\d+)(?: (.*))?\r\n', data): anchored at the start only.
\* \d+ can only end at the last leading digit (a shorter run is followed by
\* a digit, which is neither ' ' nor '\r').  "." does not match LF, so the
\* group " (.*)" followed by \r\n matches exactly when the first LF after
\* the space is preceded by a CR; the text is what lies before that CR.
\* Nothing is required of what follows the first \r\n.
ParseResponse(data) ==
    LET n == LeadingDigits(data)
        rest == SubSeq(data, n + 1, Len(data))
        tail == SubSeq(rest, 2, Len(rest))
        m == FirstLF(tail)
    IN  IF n = 0 THEN None
        ELSE IF Len(rest) >= 1 /\ rest[1] = SP /\ m >= 2 /\ tail[m - 1] = CR
        THEN [matched |-> TRUE, code |-> SubSeq(data, 1, n),
              text |-> SubSeq(tail, 1, m - 2)]
        ELSE IF Len(rest) >= 2 /\ rest[1] = CR /\ rest[2] = LF
        THEN [matched |-> TRUE, code |-> SubSeq(data, 1, n), text |-> NoText]
        ELSE None

(* ---- GetServerResponse ------------------------------------------------ *)

\* code, text = ParseResponse(data): unpacking None raises TypeError
GetServerResponse(data) ==
    LET r == ParseResponse(data)
    IN  [raised |-> ~r.matched, code |-> r.code, text |-> r.text]

NoResponse == [raised |-> FALSE, code |-> <<>>, text |-> NoText]

(* ---- the percentage printed for a scope ------------------------------ *)

\* a percentage taken over all segments of the scope
PercentageOfAll(found, missing) ==
    (2 * 10000 * missing + (found + missing)) \div (2 * (found + missing))

\* str(round((missing / found) * 100, 2)), in hundredths of a percent.
\* The counters are floats holding small integers, so the quotient is exact
\* up to the final rounding; Python 2's round() rounds half away from zero.
Percentage(found, missing) ==
    (2 * 10000 * missing + found) \div (2 * found)

\* lines 274-277 and 282-285: "100%" when missing == 0, else the ratio;
\* a found count of 0.0 makes the float division raise ZeroDivisionError
StatsLine(found, missing) ==
    IF missing = 0 THEN [raised |-> FALSE, pct |-> 10000]
    ELSE IF found = 0 THEN [raised |-> TRUE, pct |-> -1]
    ELSE [raised |-> FALSE, pct |-> Percentage(found, missing)]

(* ---- state ----------------------------------------------------------- *)

VARIABLES
    pc,            \* position of the program
    exc,           \* the uncaught exception that ended the run, or "none"
    sock,          \* the connection: "none", "open" or "closed"
    conn,          \* main's conn: "unset", "None" or "socket"
    wire,          \* bytes the server has sent that recv() has not returned
    awaiting,      \* the server owes a reply (greeting or command response)
    peerClosed,    \* the server has closed its end
    sent,          \* the commands passed to sendall, in order
    data,          \* what the last recv() returned
    greetResp,     \* code, text of line 84
    userResp,      \* code, text of line 100
    passResp,      \* code, text of line 107
    statResp,      \* code, text of line 122
    loginResult,   \* what Login returned: "unset", "None" or "True"
    result,        \* what the last Check returned: "unset", "True", "False"
    totalFound, totalMissing, fileFound, fileMissing,
    fileSegs,      \* segments taken from the current element so far
    totalSegs,     \* segments taken from the current NZB document so far
    nzbIdx, elemIdx, segIdx,   \* how far the three loops have advanced
    lastReply,     \* the line the server put on the wire last
    lastCommand,   \* the bytes of the last sendall
    closeCalls,    \* how many times conn.close() has been called
    served,        \* the replies to the STATs so far while they follow
                   \* Scenario, emptied by the first reply that does not
    results,       \* what the Checks of the replies in served returned
    runSegs,       \* results recorded since the program started
    filePct,       \* percentage printed for the current element (-1: not yet)
    totalPct,      \* percentage printed for the current document (-1: not yet)
    parseIn, parseOut, parseDone,      \* SpecParse
    pctFound, pctMissing, pctOut, pctDone   \* SpecPct

netVars == <<sock, conn, wire, awaiting, peerClosed, sent, data>>
respVars == <<greetResp, userResp, passResp, statResp, loginResult, result>>
countVars == <<totalFound, totalMissing, fileFound, fileMissing,
               fileSegs, totalSegs>>
loopVars == <<nzbIdx, elemIdx, segIdx>>
outVars == <<filePct, totalPct>>
histVars == <<lastReply, lastCommand, closeCalls, served, results, runSegs>>
mainVars == <<pc, exc, netVars, respVars, countVars, loopVars, outVars,
              histVars>>
parseVars == <<parseIn, parseOut, parseDone>>
pctVars == <<pctFound, pctMissing, pctOut, pctDone>>
vars == <<mainVars, parseVars, pctVars>>

(* ---- what the server may put on the wire ----------------------------- *)

Replies ==
    { <<"2", "0", "0", SP, "a", CR, LF>>,
      <<"3", "8", "1", CR, LF>>,
      <<"2", "8", "1", SP, "a", CR, LF>>,
      <<"2", "2", "3", CR, LF>>,
      <<"4", "3", "0", SP, "a", CR, LF>>,
      <<"5", "0", "0", CR, LF>>,
      <<"2", "2", CR, LF>>,
      <<"2", "2", "3", "0", CR, LF>>,
      <<"2", "2", "4", CR, LF>>,
      <<"a", CR, LF>>,
      <<"2", "2", "3", LF>> }

\* lines 18-19: the configured credentials
username == <<"username">>
password == <<"password">>

Code200 == <<"2", "0", "0">>
Code381 == <<"3", "8", "1">>
Code281 == <<"2", "8", "1">>
Code223 == <<"2", "2", "3">>

\* a Connect that accepts every greeting that parses
ConnectOkAnyCode(code) == TRUE

\* line 87: if code != '200'
ConnectOk(code) == ~(code # Code200)

\* a Login that also takes "281" in reply to AUTHINFO USER
UserOkAlso281(code) == code \in {Code381, Code281}

\* line 103: if code != '381'
UserOk(code) == ~(code # Code381)

\* line 110: if code != '281'
PassOk(code) == ~(code # Code281)

(* ---- initial states --------------------------------------------------- *)

MainIdle ==
    /\ exc = "none"
    /\ sock = "none"
    /\ conn = "unset"
    /\ wire = <<>>
    /\ awaiting = FALSE
    /\ peerClosed = FALSE
    /\ sent = <<>>
    /\ data = <<>>
    /\ greetResp = NoResponse
    /\ userResp = NoResponse
    /\ passResp = NoResponse
    /\ statResp = NoResponse
    /\ loginResult = "unset"
    /\ result = "unset"
    /\ totalFound = 0 /\ totalMissing = 0
    /\ fileFound = 0 /\ fileMissing = 0
    /\ fileSegs = 0 /\ totalSegs = 0
    /\ nzbIdx = 0 /\ elemIdx = 0 /\ segIdx = 0
    /\ filePct = -1 /\ totalPct = -1
    /\ lastReply = <<>> /\ lastCommand = <<>>
    /\ closeCalls = 0
    /\ served = <<>> /\ results = <<>>
    /\ runSegs = 0

ParseIdle == parseIn = <<>> /\ parseOut = None /\ parseDone = TRUE

PctIdle == pctFound = 0 /\ pctMissing = 0 /\ pctOut = StatsLine(0, 0) /\ pctDone = TRUE

Init ==
    /\ pc = "Connect"
    /\ MainIdle
    /\ ParseIdle
    /\ PctIdle

(* ---- the server and the socket ---------------------------------------- *)

\* the line starts with the status code 223
HasCode223(line) ==
    /\ Len(line) >= 3
    /\ line[1] = "2" /\ line[2] = "2" /\ line[3] = "3"
    /\ (Len(line) = 3 \/ line[4] \notin DigitChars)

\* the replies to STAT of the end-to-end scenario: 223, 430, 223
Scenario ==
    << <<"2", "2", "3", CR, LF>>,
       <<"4", "3", "0", SP, "a", CR, LF>>,
       <<"2", "2", "3", CR, LF>> >>

\* r is the reply to the STAT just sent, every earlier STAT's reply is in
\* served, and r is the scenario's next reply
ContinuesScenario(r) ==
    /\ pc = "Check_recv"
    /\ Len(served) = Len(sent) - 3
    /\ Len(served) < Len(Scenario)
    /\ r = Scenario[Len(served) + 1]

\* the server answers the connection or the last command with one line
ServerReply ==
    /\ awaiting
    /\ \E r \in Replies :
        /\ wire' = wire \o r
        /\ lastReply' = r
        /\ IF pc # "Check_recv" THEN UNCHANGED <<served, results>>
           ELSE IF ContinuesScenario(r)
           THEN served' = Append(served, r) /\ UNCHANGED results
           ELSE served' = <<>> /\ results' = <<>>
    /\ awaiting' = FALSE
    /\ UNCHANGED <<pc, exc, sock, conn, peerClosed, sent, data, respVars,
                   countVars, loopVars, outVars, parseVars, pctVars,
                   lastCommand, closeCalls, runSegs>>

\* the server closes the stream instead of answering
ServerClose ==
    /\ awaiting
    /\ peerClosed' = TRUE
    /\ awaiting' = FALSE
    /\ UNCHANGED <<pc, exc, sock, conn, wire, sent, data, respVars,
                   countVars, loopVars, outVars, parseVars, pctVars,
                   lastReply, lastCommand, closeCalls, served, results, runSegs>>

\* s.recv(1024) returns once at least one byte is there, with whatever part
\* of the stream has arrived (at most 1024 bytes), and '' once the peer has
\* closed and nothing is left; otherwise it blocks
RecvLengths ==
    IF wire # <<>> THEN 1..Min(Len(wire), RecvSize)
    ELSE IF peerClosed THEN {0}
    ELSE {}

Recv(k) ==
    /\ data' = SubSeq(wire, 1, k)
    /\ wire' = SubSeq(wire, k + 1, Len(wire))

\* s.sendall(command); sent keeps the name of the command
Send(name, command) ==
    /\ sent' = Append(sent, name)
    /\ lastCommand' = command
    /\ awaiting' = TRUE

\* an exception nobody catches ends the run where it is raised
Raise(name) ==
    /\ exc' = name
    /\ pc' = "crashed"

(* ---- Connect ----------------------------------------------------------- *)

\* lines 78-81: the socket is created and connected
Connect_open ==
    /\ pc = "Connect"
    /\ sock' = "open"
    /\ awaiting' = TRUE
    /\ pc' = "Connect_recv"
    /\ UNCHANGED <<exc, conn, wire, peerClosed, sent, data, respVars,
                   countVars, loopVars, outVars, parseVars, pctVars,
                   lastReply, lastCommand, closeCalls, served, results, runSegs>>

\* line 81: s.connect raises socket.error, no connection exists
Connect_refused ==
    /\ pc = "Connect"
    /\ Raise("socket.error")
    /\ UNCHANGED <<netVars, respVars, countVars, loopVars, outVars,
                   parseVars, pctVars,
                   lastReply, lastCommand, closeCalls, served, results, runSegs>>

\* lines 84-90: read the greeting, return None or the socket
Connect_recv ==
    /\ pc = "Connect_recv"
    /\ \E k \in RecvLengths :
        /\ Recv(k)
        /\ LET r == GetServerResponse(data')
           IN  IF r.raised
               THEN /\ Raise("TypeError")
                    /\ UNCHANGED <<conn, greetResp>>
               ELSE /\ greetResp' = r
                    /\ conn' = IF ~ConnectOk(r.code) THEN "None" ELSE "socket"
                    /\ pc' = "main_conn"
                    /\ UNCHANGED exc
    /\ UNCHANGED <<sock, awaiting, peerClosed, sent, userResp, passResp,
                   statResp, loginResult, result, countVars, loopVars,
                   outVars, parseVars, pctVars,
                   lastReply, lastCommand, closeCalls, served, results, runSegs>>

\* lines 231-233: if conn == None: print, sys.exit()
MainCheckConn ==
    /\ pc = "main_conn"
    /\ pc' = IF conn = "None" THEN "exited" ELSE "Login_user"
    /\ UNCHANGED <<exc, netVars, respVars, countVars, loopVars, outVars,
                   parseVars, pctVars,
                   lastReply, lastCommand, closeCalls, served, results, runSegs>>

(* ---- Login ------------------------------------------------------------- *)

\* line 100, the sendall of SendServerCommand
Login_sendUser ==
    /\ pc = "Login_user"
    /\ Send("AUTHINFO USER",
            <<"AUTHINFO", SP, "USER", SP>> \o username \o <<CR, LF>>)
    /\ pc' = "Login_user_recv"
    /\ UNCHANGED <<exc, sock, conn, wire, peerClosed, data, respVars,
                   countVars, loopVars, outVars, parseVars, pctVars,
                   lastReply, closeCalls, served, results, runSegs>>

\* lines 100-104: the response to AUTHINFO USER
Login_recvUser ==
    /\ pc = "Login_user_recv"
    /\ \E k \in RecvLengths :
        /\ Recv(k)
        /\ LET r == GetServerResponse(data')
           IN  IF r.raised
               THEN /\ Raise("TypeError")
                    /\ UNCHANGED <<userResp, loginResult>>
               ELSE /\ userResp' = r
                    /\ IF ~UserOk(r.code)
                       THEN loginResult' = "None" /\ pc' = "main_login"
                       ELSE loginResult' = loginResult /\ pc' = "Login_pass"
                    /\ UNCHANGED exc
    /\ UNCHANGED <<sock, conn, awaiting, peerClosed, sent, greetResp,
                   passResp, statResp, result, countVars, loopVars,
                   outVars, parseVars, pctVars,
                   lastReply, lastCommand, closeCalls, served, results, runSegs>>

\* line 107, the sendall of SendServerCommand
Login_sendPass ==
    /\ pc = "Login_pass"
    /\ Send("AUTHINFO PASS",
            <<"AUTHINFO", SP, "PASS", SP>> \o password \o <<CR, LF>>)
    /\ pc' = "Login_pass_recv"
    /\ UNCHANGED <<exc, sock, conn, wire, peerClosed, data, respVars,
                   countVars, loopVars, outVars, parseVars, pctVars,
                   lastReply, closeCalls, served, results, runSegs>>

\* lines 107-114: the response to AUTHINFO PASS
Login_recvPass ==
    /\ pc = "Login_pass_recv"
    /\ \E k \in RecvLengths :
        /\ Recv(k)
        /\ LET r == GetServerResponse(data')
           IN  IF r.raised
               THEN /\ Raise("TypeError")
                    /\ UNCHANGED <<passResp, loginResult>>
               ELSE /\ passResp' = r
                    /\ loginResult' = IF ~PassOk(r.code) THEN "None" ELSE "True"
                    /\ pc' = "main_login"
                    /\ UNCHANGED exc
    /\ UNCHANGED <<sock, conn, awaiting, peerClosed, sent, greetResp,
                   userResp, statResp, result, countVars, loopVars,
                   outVars, parseVars, pctVars,
                   lastReply, lastCommand, closeCalls, served, results, runSegs>>

\* a caller that exits after a failed login without conn.close()
MainCheckLoginNoClose ==
    /\ pc = "main_login"
    /\ pc' = IF loginResult = "None" THEN "exited" ELSE "files"
    /\ UNCHANGED <<exc, netVars, respVars, countVars, loopVars, outVars,
                   histVars, parseVars, pctVars>>

\* lines 236-239: if Login(...) == None: print, conn.close(), sys.exit()
MainCheckLogin ==
    /\ pc = "main_login"
    /\ IF loginResult = "None"
       THEN sock' = "closed" /\ closeCalls' = closeCalls + 1 /\ pc' = "exited"
       ELSE sock' = sock /\ closeCalls' = closeCalls /\ pc' = "files"
    /\ UNCHANGED <<exc, conn, wire, awaiting, peerClosed, sent, data,
                   respVars, countVars, loopVars, outVars, parseVars, pctVars,
                   lastReply, lastCommand, served, results, runSegs>>

(* ---- Check and the checking loop --------------------------------------- *)

\* a loop whose total counters are started once, before the first document
Files_nextKeepTotals ==
    /\ pc = "files"
    /\ nzbIdx < MaxNzb
    /\ nzbIdx' = nzbIdx + 1
    /\ elemIdx' = 0
    /\ totalSegs' = 0
    /\ filePct' = -1 /\ totalPct' = -1
    /\ pc' = "elems"
    /\ UNCHANGED <<exc, netVars, respVars, totalFound, totalMissing,
                   fileFound, fileMissing, fileSegs, segIdx, histVars,
                   parseVars, pctVars>>

\* lines 245-250: the next NZB document is parsed, the total counters start
\* at 0.0; nothing has been printed yet for this document
Files_next ==
    /\ pc = "files"
    /\ nzbIdx < MaxNzb
    /\ nzbIdx' = nzbIdx + 1
    /\ elemIdx' = 0
    /\ totalMissing' = 0 /\ totalFound' = 0
    /\ totalSegs' = 0
    /\ filePct' = -1 /\ totalPct' = -1
    /\ pc' = "elems"
    /\ UNCHANGED <<exc, netVars, respVars, fileFound, fileMissing, fileSegs,
                   segIdx, parseVars, pctVars,
                   lastReply, lastCommand, closeCalls, served, results, runSegs>>

\* line 246: ET.parse raises on an unreadable or ill-formed document
Files_parseError ==
    /\ pc = "files"
    /\ nzbIdx < MaxNzb
    /\ Raise("ParseError")
    /\ UNCHANGED <<netVars, respVars, countVars, loopVars, outVars,
                   parseVars, pctVars,
                   lastReply, lastCommand, closeCalls, served, results, runSegs>>

\* lines 288-289: after the last document, conn.close()
Files_done ==
    /\ pc = "files"
    /\ sock' = "closed"
    /\ closeCalls' = closeCalls + 1
    /\ pc' = "done"
    /\ UNCHANGED <<exc, conn, wire, awaiting, peerClosed, sent, data,
                   respVars, countVars, loopVars, outVars, parseVars, pctVars,
                   lastReply, lastCommand, served, results, runSegs>>

\* lines 252-261: the next element, the file counters start at 0.0; nothing
\* has been printed yet for this element
Elems_next ==
    /\ pc = "elems"
    /\ elemIdx < MaxElems
    /\ elemIdx' = elemIdx + 1
    /\ segIdx' = 0
    /\ fileMissing' = 0 /\ fileFound' = 0
    /\ fileSegs' = 0
    /\ filePct' = -1
    /\ pc' = "segs"
    /\ UNCHANGED <<exc, netVars, respVars, totalFound, totalMissing,
                   totalSegs, nzbIdx, totalPct, parseVars, pctVars,
                   lastReply, lastCommand, closeCalls, served, results, runSegs>>

\* lines 254-256: an element whose subject has no quoted name makes
\* re.match return None, and match.group raises AttributeError
Elems_badSubject ==
    /\ pc = "elems"
    /\ elemIdx < MaxElems
    /\ Raise("AttributeError")
    /\ UNCHANGED <<netVars, respVars, countVars, loopVars, outVars,
                   parseVars, pctVars,
                   lastReply, lastCommand, closeCalls, served, results, runSegs>>

\* lines 280-286: after the last element, the total statistics
Elems_done ==
    /\ pc = "elems"
    /\ LET line == StatsLine(totalFound, totalMissing)
       IN  IF line.raised
           THEN Raise("ZeroDivisionError") /\ UNCHANGED totalPct
           ELSE totalPct' = line.pct /\ pc' = "files" /\ UNCHANGED exc
    /\ UNCHANGED <<netVars, respVars, countVars, loopVars, filePct,
                   parseVars, pctVars,
                   lastReply, lastCommand, closeCalls, served, results, runSegs>>

\* segment.text: the message id of a segment, without delimiters
SegmentText == <<"part", "@", "host">>

\* line 263: "<" + segment.text + ">"
MessageId(text) == <<"<">> \o text \o <<">">>

\* line 122: "STAT " + messageId + "\r\n"
StatCommand(messageId) == <<"STAT", SP>> \o messageId \o <<CR, LF>>

\* lines 262-263 and 122: the next segment, Check sends STAT <id>
Check_send ==
    /\ pc = "segs"
    /\ segIdx < MaxSegs
    /\ segIdx' = segIdx + 1
    /\ Send("STAT", StatCommand(MessageId(SegmentText)))
    /\ pc' = "Check_recv"
    /\ UNCHANGED <<exc, sock, conn, wire, peerClosed, data, respVars,
                   countVars, nzbIdx, elemIdx, outVars, parseVars, pctVars,
                   lastReply, closeCalls, served, results, runSegs>>

\* a Check that takes every 2xx code for "article exists"
CheckResultAny2xx(code) ==
    IF Len(code) = 3 /\ code[1] = "2" THEN "True" ELSE "False"

\* a Check that compares only the first three digits of the code
CheckResultByPrefix(code) ==
    IF Len(code) >= 3 /\ SubSeq(code, 1, 3) = Code223 THEN "True" ELSE "False"

\* lines 125-129: Check's return value
CheckResult(code) == IF code # Code223 THEN "False" ELSE "True"

\* a recording that forgets fileMissing
RecordSegmentTotalOnly(res) ==
    IF res = "True"
    THEN /\ totalFound' = totalFound + 1
         /\ fileFound' = fileFound + 1
         /\ UNCHANGED <<totalMissing, fileMissing>>
    ELSE /\ totalMissing' = totalMissing + 1
         /\ UNCHANGED <<totalFound, fileFound, fileMissing>>

\* lines 264-270: one result is recorded in the file and total counters
RecordSegment(res) ==
    IF res = "True"
    THEN /\ totalFound' = totalFound + 1
         /\ fileFound' = fileFound + 1
         /\ UNCHANGED <<totalMissing, fileMissing>>
    ELSE /\ totalMissing' = totalMissing + 1
         /\ fileMissing' = fileMissing + 1
         /\ UNCHANGED <<totalFound, fileFound>>

\* lines 122-129 and 264-270: the response to STAT, Check's result, and the
\* counting of that result
Check_recv ==
    /\ pc = "Check_recv"
    /\ \E k \in RecvLengths :
        /\ Recv(k)
        /\ LET r == GetServerResponse(data')
           IN  IF r.raised
               THEN /\ Raise("TypeError")
                    /\ UNCHANGED <<statResp, result, countVars, results,
                                   runSegs>>
               ELSE /\ statResp' = r
                    /\ result' = CheckResult(r.code)
                    /\ RecordSegment(result')
                    /\ fileSegs' = fileSegs + 1
                    /\ totalSegs' = totalSegs + 1
                    /\ runSegs' = runSegs + 1
                    /\ results' = IF Len(served) = runSegs + 1
                                  THEN Append(results, result')
                                  ELSE results
                    /\ pc' = "segs"
                    /\ UNCHANGED exc
    /\ UNCHANGED <<sock, conn, awaiting, peerClosed, sent, greetResp,
                   userResp, passResp, loginResult, loopVars, outVars,
                   parseVars, pctVars,
                   lastReply, lastCommand, closeCalls, served>>

\* lines 273-278: after the last segment, the file statistics
Segs_done ==
    /\ pc = "segs"
    /\ LET line == StatsLine(fileFound, fileMissing)
       IN  IF line.raised
           THEN Raise("ZeroDivisionError") /\ UNCHANGED filePct
           ELSE filePct' = line.pct /\ pc' = "elems" /\ UNCHANGED exc
    /\ UNCHANGED <<netVars, respVars, countVars, loopVars, totalPct,
                   parseVars, pctVars,
                   lastReply, lastCommand, closeCalls, served, results, runSegs>>

(* ---- the program -------------------------------------------------------- *)

Next ==
    \/ ServerReply
    \/ ServerClose
    \/ Connect_open
    \/ Connect_refused
    \/ Connect_recv
    \/ MainCheckConn
    \/ Login_sendUser
    \/ Login_recvUser
    \/ Login_sendPass
    \/ Login_recvPass
    \/ MainCheckLogin
    \/ Files_next
    \/ Files_parseError
    \/ Files_done
    \/ Elems_next
    \/ Elems_badSubject
    \/ Elems_done
    \/ Check_send
    \/ Check_recv
    \/ Segs_done

Spec == Init /\ [][Next]_vars

(* ---- ParseResponse on its own ------------------------------------------- *)

ParseAlphabet == {"2", "3", SP, "a", CR, LF}

RECURSIVE StringsUpTo(_)
StringsUpTo(n) ==
    IF n = 0 THEN {<<>>}
    ELSE LET shorter == StringsUpTo(n - 1)
         IN  shorter \cup {Append(s, c) : s \in {t \in shorter : Len(t) = n - 1},
                                          c \in ParseAlphabet}

InitParse ==
    /\ pc = "idle"
    /\ MainIdle
    /\ PctIdle
    /\ parseIn \in StringsUpTo(MaxLen)
    /\ parseOut = None
    /\ parseDone = FALSE

ParseStep ==
    /\ ~parseDone
    /\ parseOut' = ParseResponse(parseIn)
    /\ parseDone' = TRUE
    /\ UNCHANGED <<parseIn, mainVars, pctVars>>

NextParse == ParseStep

SpecParse == InitParse /\ [][NextParse]_vars

(* ---- the percentage on its own ------------------------------------------ *)

InitPct ==
    /\ pc = "idle"
    /\ MainIdle
    /\ ParseIdle
    /\ pctFound \in 0..MaxCount
    /\ pctMissing \in 0..MaxCount
    /\ pctOut = StatsLine(0, 0)
    /\ pctDone = FALSE

PctStep ==
    /\ ~pctDone
    /\ pctOut' = StatsLine(pctFound, pctMissing)
    /\ pctDone' = TRUE
    /\ UNCHANGED <<pctFound, pctMissing, mainVars, parseVars>>

NextPct == PctStep

SpecPct == InitPct /\ [][NextPct]_vars

(* ---- properties ---------------------------------------------------------- *)

LastSent == IF sent = <<>> THEN "none" ELSE sent[Len(sent)]

Terminated == pc \in {"done", "exited", "crashed"}

\* Connect has consumed the greeting: it returned, or raised while at it
GreetingConsumed ==
    /\ sent = <<>>
    /\ sock = "open"
    /\ pc \in {"main_conn", "crashed"}

\* C1: once Connect has read the greeting, it has returned the socket if the
\* greeting parses with code "200", and otherwise it has returned the
\* failure value None: it has not ended the run with an exception.
C1_ConnectReturnsSessionOrFailure ==
    GreetingConsumed =>
        /\ pc = "main_conn"
        /\ conn = (IF ParseResponse(data).matched /\ ParseResponse(data).code = Code200
                   THEN "socket" ELSE "None")

\* C2: Login returns True exactly when the response to AUTHINFO USER had
\* code "381" and the response to AUTHINFO PASS had code "281"; with any
\* other code at either step (also "281" at the USER step) it returns None.
C2_LoginSuccessIff381Then281 ==
    /\ loginResult = "True" => pc # "Login_user_recv" /\ pc # "Login_pass_recv"
    /\ pc = "main_login" =>
        /\ loginResult \in {"True", "None"}
        /\ loginResult = "True" <=>
              (userResp.code = Code381 /\ passResp.code = Code281)
        /\ userResp.code # Code381 => LastSent = "AUTHINFO USER"
        /\ userResp.code = Code381 =>
              /\ LastSent = "AUTHINFO PASS"
              /\ passResp = GetServerResponse(data)

C2_Witness ==
    /\ pc = "main_login"
    /\ loginResult = "True"
    /\ userResp.code = Code381
    /\ passResp.code = Code281

\* C3: Check returns True exactly when the parsed code of the STAT response
\* is "223"; for every other parsed code ("430", "500", "22", "2230",
\* "224") it returns False, and the run goes on.
C3_CheckTrueIffExactly223 ==
    (result # "unset" /\ exc # "TypeError") =>
        /\ statResp = GetServerResponse(data)
        /\ ~statResp.raised
        /\ result = (IF statResp.code = <<"2", "2", "3">> THEN "True" ELSE "False")

C3_Witness ==
    /\ pc = "segs"
    /\ result = "False"
    /\ statResp.code = <<"2", "2", "3", "0">>

\* C4: when the response to STAT does not parse, Check's caller gets a
\* failure it can handle: the run is not ended by an uncaught exception.
C4_UnparseableStatIsHandled ==
    (LastSent = "STAT" /\ pc # "Check_recv" /\ ~ParseResponse(data).matched) =>
        pc # "crashed"

\* the input is digits, one space, a text and CRLF
DigitsSpaceTextCRLF(d) ==
    LET n == LeadingDigits(d)
    IN  /\ n >= 1
        /\ Len(d) >= n + 3
        /\ d[n + 1] = SP
        /\ d[Len(d) - 1] = CR
        /\ d[Len(d)] = LF

\* the input is digits and CRLF
DigitsCRLF(d) ==
    LET n == LeadingDigits(d)
    IN  n >= 1 /\ Len(d) = n + 2 /\ d[n + 1] = CR /\ d[n + 2] = LF

EndsWithCRLF(d) == Len(d) >= 2 /\ d[Len(d) - 1] = CR /\ d[Len(d)] = LF

\* C5: ParseResponse returns (digits, text) for digits + space + text +
\* CRLF, (digits, absent) for digits + CRLF, and absent for every input
\* that does not end with CRLF or does not start with a digit.
C5_ParseResponseContract ==
    parseDone =>
        LET n == LeadingDigits(parseIn)
        IN  /\ DigitsSpaceTextCRLF(parseIn) =>
                parseOut = [matched |-> TRUE, code |-> SubSeq(parseIn, 1, n),
                            text |-> SubSeq(parseIn, n + 2, Len(parseIn) - 2)]
            /\ DigitsCRLF(parseIn) =>
                parseOut = [matched |-> TRUE, code |-> SubSeq(parseIn, 1, n),
                            text |-> NoText]
            /\ (~EndsWithCRLF(parseIn) \/ n = 0) => parseOut = None

\* C6: after a failed Connect the connection it opened is closed.
C6_FailedConnectClosesSocket ==
    conn = "None" => sock # "open"

\* the only order in which the program issues its commands
CommandOrder(n) ==
    [i \in 1..n |-> IF i = 1 THEN "AUTHINFO USER"
                    ELSE IF i = 2 THEN "AUTHINFO PASS" ELSE "STAT"]

NothingCounted ==
    /\ totalFound = 0 /\ totalMissing = 0
    /\ fileFound = 0 /\ fileMissing = 0
    /\ nzbIdx = 0 /\ elemIdx = 0 /\ segIdx = 0

\* C7: AUTHINFO USER has been sent only if the greeting had code "200",
\* AUTHINFO PASS only if the reply to USER had code "381", STAT only if the
\* reply to PASS had code "281"; once Connect has failed nothing has been or
\* will be sent, once Login has failed no command follows the failed step,
\* and in both cases no segment is taken or counted.  (sent only grows and
\* conn and loginResult are set once, so the state form covers "ever
\* after".)
C7_HandshakeGating ==
    /\ sent = CommandOrder(Len(sent))
    /\ Len(sent) >= 1 => greetResp.code = Code200 /\ conn = "socket"
    /\ Len(sent) >= 2 => userResp.code = Code381
    /\ Len(sent) >= 3 => passResp.code = Code281 /\ loginResult = "True"
    /\ conn = "None" => sent = <<>> /\ NothingCounted
    /\ loginResult = "None" =>
          /\ NothingCounted
          /\ sent = CommandOrder(IF userResp.code = Code381 THEN 2 ELSE 1)
    /\ (pc = "crashed" /\ exc = "TypeError" /\ Len(sent) <= 2) => NothingCounted

C7_Witness ==
    /\ Len(sent) >= 4
    /\ LastSent = "STAT"
    /\ passResp.code = Code281
    /\ totalFound + totalMissing >= 1

\* C8: no run ends with the connection still open.
C8_ConnectionClosedOnEveryExit ==
    Terminated => sock # "open"

\* a step that records one Check result
RecordsResult == pc = "Check_recv" /\ pc' = "segs"

Abs(x) == IF x < 0 THEN -x ELSE x

\* C10: the percentage is 100 when missing is 0; otherwise, when one is
\* reported, it is the hundredth nearest to 100 * missing / found (found
\* alone is the denominator): 10/0 gives 100.00, 9/1 gives 11.11 and 2/1
\* gives 50.00.
C10_PercentageIsMissingOverFound ==
    pctDone =>
        /\ pctMissing = 0 => pctOut = [raised |-> FALSE, pct |-> 10000]
        /\ (pctMissing > 0 /\ pctFound > 0) =>
              /\ ~pctOut.raised
              /\ 2 * Abs(pctOut.pct * pctFound - 10000 * pctMissing) <= pctFound
        /\ (pctFound = 10 /\ pctMissing = 0) => pctOut.pct = 10000
        /\ (pctFound = 9 /\ pctMissing = 1) => pctOut.pct = 1111
        /\ (pctFound = 2 /\ pctMissing = 1) => pctOut.pct = 5000

C10_Witness ==
    pctDone /\ pctFound = 9 /\ pctMissing = 1 /\ pctOut.pct = 1111

AsResult(b) == IF b THEN "True" ELSE "False"

\* C11: every Check returns True exactly when the reply the server sent to
\* its STAT has code 223, and leaves the connection open with nothing
\* unread, ready for the next Check, all over the one connection and the one
\* login; when the replies are 223, 430, 223 the results are True, False,
\* True, and a document of these three segments reports 2 found, 1 missing
\* and 50.00.
C11_OneHandshakeManyChecks ==
    /\ [](/\ Len(results) <= Len(served)
          /\ \A k \in 1..Len(results) :
                results[k] = AsResult(HasCode223(served[k]))
          /\ (served = Scenario /\ Len(results) = 3) =>
                results = <<"True", "False", "True">>
          /\ (Len(results) = 3 /\ totalSegs = 3 /\ totalPct # -1) =>
                totalFound = 2 /\ totalMissing = 1 /\ totalPct = 5000
          /\ runSegs >= 1 =>
                /\ Len(sent) >= 3 /\ sent[1] = "AUTHINFO USER"
                /\ sent[2] = "AUTHINFO PASS"
                /\ \A i \in 3..Len(sent) : sent[i] = "STAT")
    /\ [][RecordsResult =>
            /\ result' = AsResult(HasCode223(lastReply))
            /\ data' = lastReply
            /\ sock' = "open" /\ wire' = <<>> /\ ~awaiting' /\ ~peerClosed'
            /\ closeCalls' = 0]_vars

C11_Witness ==
    /\ served = Scenario
    /\ results = <<"True", "False", "True">>
    /\ runSegs = 3 /\ totalSegs = 3
    /\ totalFound = 2 /\ totalMissing = 1
    /\ totalPct = 5000

\* C12: a scope that ends with found = 0 and missing > 0 does not end the
\* run with a division by zero: 0 is reported and the run goes on.
C12_AllMissingReportsZero ==
    /\ exc # "ZeroDivisionError"
    /\ (pc = "elems" /\ filePct # -1 /\ fileFound = 0 /\ fileMissing > 0) =>
          filePct = 0
    /\ (pc = "files" /\ totalPct # -1 /\ totalFound = 0 /\ totalMissing > 0) =>
          totalPct = 0

\* the program has read from the reply the server sent last
ReplyRead == lastReply # <<>> /\ ~awaiting /\ Len(wire) < Len(lastReply)

\* C13: whenever the program has read the reply to a command, what it
\* evaluates is the complete line the server sent, also when the line
\* arrives in pieces; a read fails only when the peer has closed.
C13_ReadEvaluatesCompleteLine ==
    /\ ReplyRead => data = lastReply /\ wire = <<>>
    /\ (exc = "TypeError" /\ ParseResponse(lastReply).matched) => peerClosed

StatsSent == IF Len(sent) > 2 THEN Len(sent) - 2 ELSE 0

\* C14: one USER, at most one PASS, then only STATs, each the bytes
\* "STAT <" + id + ">" + CRLF; no command is sent while an earlier reply is
\* unread; and, except while the reply to a STAT is awaited, the number of
\* STATs sent is the number of segments counted.
C14_OneStatPerCountedSegment ==
    /\ sent = CommandOrder(Len(sent))
    /\ LastSent = "STAT" =>
          lastCommand = <<"STAT", SP, "<">> \o SegmentText \o <<">", CR, LF>>
    /\ pc \in {"Login_user", "Login_pass", "segs"} => ~awaiting /\ wire = <<>>
    /\ pc # "Check_recv" => StatsSent = runSegs

InLogin ==
    pc \in {"Login_user", "Login_user_recv", "Login_pass", "Login_pass_recv"}

\* C15: the connection is open all through Login and when Login returns,
\* whatever it returns, and also when it raises; after a failed login the
\* caller's next step closes it, once, sends nothing and ends the run.
C15_LoginLeavesConnectionOpen ==
    /\ [](/\ (InLogin \/ pc = "main_login") => sock = "open" /\ closeCalls = 0
          /\ (pc = "crashed" /\ Len(sent) \in {1, 2}) => sock = "open"
          /\ loginResult = "None" =>
                /\ pc \in {"main_login", "exited"}
                /\ pc = "exited" => sock = "closed" /\ closeCalls = 1)
    /\ [][(pc = "main_login" /\ loginResult = "None") =>
            /\ sock' = "closed" /\ closeCalls' = closeCalls + 1
            /\ sent' = sent /\ pc' = "exited"]_vars

C15_Witness ==
    /\ pc = "exited"
    /\ loginResult = "None"
    /\ userResp.code = Code381
    /\ sent = <<"AUTHINFO USER", "AUTHINFO PASS">>
    /\ sock = "closed" /\ closeCalls = 1

\* C16, as claimed: the total counters cover every segment of every input
\* file of the run and are never reset between input files.
C16_TotalsSpanTheRun ==
    nzbIdx >= 1 => totalFound + totalMissing = runSegs

StartsDocument == pc = "files" /\ pc' = "elems"

\* C16, amended: the total counters cover one input file.  They are set to
\* zero when an input file starts and change in no other way than by one
\* recorded result (so they are not reset between the elements of a file),
\* and the total percentage is printed once at the end of each input file,
\* from counters that hold every segment of that file and no other.
C16_TotalsSpanOneDocument ==
    /\ [](/\ totalFound + totalMissing = totalSegs
          /\ totalSegs <= runSegs
          /\ totalPct # -1 =>
                /\ pc \in {"files", "done", "crashed"}
                /\ totalPct = StatsLine(totalFound, totalMissing).pct)
    /\ [][/\ StartsDocument =>
                totalFound' = 0 /\ totalMissing' = 0 /\ totalPct' = -1
          /\ (totalFound' # totalFound \/ totalMissing' # totalMissing) =>
                (StartsDocument \/ RecordsResult)
          /\ totalPct' # totalPct =>
                (StartsDocument \/ (pc = "elems" /\ pc' = "files"))]_vars

C16_Witness ==
    /\ nzbIdx = 2
    /\ pc = "files"
    /\ totalPct # -1
    /\ totalSegs >= 1
    /\ runSegs > totalSegs

\* the text of a response line holds neither CR nor LF
PlainText(t) == \A i \in 1..Len(t) : t[i] # CR /\ t[i] # LF

\* the whole input is digits [space text] CRLF
WholeLine(d) ==
    \/ DigitsCRLF(d)
    \/ /\ DigitsSpaceTextCRLF(d)
       /\ PlainText(SubSeq(d, LeadingDigits(d) + 2, Len(d) - 2))

\* C17: ParseResponse returns a value only when the whole input is one
\* line digits [space text] CRLF; with anything after the first CRLF, or a
\* carriage return in the text, it returns absent.
C17_ParseMatchesWholeLineOnly ==
    (parseDone /\ parseOut.matched) => WholeLine(parseIn)

\* the response to the last STAT has been read and its code is not 223
StatNotFound ==
    /\ LastSent = "STAT"
    /\ pc # "Check_recv"
    /\ ~(ParseResponse(data).matched /\ ParseResponse(data).code = Code223)

\* C18: every STAT outcome other than code 223, a malformed or absent
\* response included, is counted as missing and the loop goes on.
C18_NonFoundOutcomeCountsMissing ==
    StatNotFound =>
        /\ pc # "crashed"
        /\ result = "False"
        /\ StatsSent = runSegs

====
